---------------------------- MODULE Spec2Model ----------------------------
(***************************************************************************)
(* Contentomation, src/main.py: one automation cycle of the Flask handler  *)
(* run_automation_cycle.  A request is parsed, web_search fetches hits,    *)
(* grok_process_raw_data asks the classification service to bucket them,   *)
(* generate_outputs derives the five views and optionally POSTs them to    *)
(* the Zapier webhook, and the handler answers 200 with the bundle or 500  *)
(* with an error object.                                                   *)
(*                                                                         *)
(* Python values are modelled as follows.  A JSON object whose key order   *)
(* matters (the parsed classification reply) is Dict(<<Pair(k, v), ..>>),  *)
(* its pairs in insertion order.  A JSON array is List(<<..>>).  A hit, a  *)
(* profile, a provider record and the outputs dict are TLA+ records, a     *)
(* missing key being a missing field.  bot_knowledge is a function from    *)
(* its keys to snippet sequences.                                          *)
(***************************************************************************)
EXTENDS Naturals, Sequences, FiniteSets

VARIABLES
    pc,                 \* position of the handler: ready, search, categorize,
                        \* project, relay, responded
    ZAPIER_WEBHOOK_URL, \* TRUE iff the environment sets a relay target
    user_profiles,      \* line 127
    raw_data,           \* line 129
    categorized,        \* line 130
    outputs,            \* the dict generate_outputs builds (line 84 onwards)
    response,           \* what the handler returned: status and JSON body
    posted,             \* the JSON body handed to requests.post (line 112)
    searchCalls,        \* calls of ddgs.text in this invocation
    grokCalls,          \* calls of client.chat.completions.create
    relayCalls,         \* calls of requests.post
    searchFault,        \* the search raised and was degraded (lines 46-48)
    grokFault,          \* the classification call or json.loads raised (75-77)
    relayFault          \* requests.post raised (lines 114-115)

vars == <<pc, ZAPIER_WEBHOOK_URL, user_profiles, raw_data, categorized, outputs,
          response, posted, searchCalls, grokCalls, relayCalls, searchFault,
          grokFault, relayFault>>

---------------------------------------------------------------------------
(* Bounds of the explored inputs. *)

MaxProfiles == 2    \* longest user_profiles list in a request
MaxBucket == 2      \* most hits the service puts into one bucket
MaxRaw == 2         \* most records the search provider returns

(* Slice limits of generate_outputs. *)
NewsletterTop == 5
ForumTop == 3
WorkshopTop == 2

---------------------------------------------------------------------------
(* Python helpers. *)

Min(a, b) == IF a < b THEN a ELSE b

\* s[:n]
Take(s, n) == SubSeq(s, 1, Min(n, Len(s)))

List(s) == [t |-> "list", items |-> s]
Number == [t |-> "number", items |-> <<>>]
Pair(k, v) == [k |-> k, v |-> v]
Dict(pairs) == [t |-> "dict", items |-> pairs]

\* No value: a local not assigned yet, a response not sent yet.
Nothing == [none |-> TRUE]

Labels == {"productivity", "health", "creativity"}
LabelOrder == <<"productivity", "health", "creativity">>
Views == {"newsletter", "tool_vault", "forum", "coaching_bot", "workshops"}

\* The literal of lines 56 and 77.
EmptyCategories ==
    Dict(<<Pair("productivity", List(<<>>)), Pair("health", List(<<>>)),
           Pair("creativity", List(<<>>))>>)

---------------------------------------------------------------------------
(* The inputs: what the collaborators can answer and what a request holds. *)

\* Records the search provider (ddgs.text) can return, in its order: with a
\* body, with a snippet only, with neither, with both.
ProviderRecords ==
    << [title |-> "Focus hacks", body |-> "Great tool for focus"],
       [title |-> "Sleep", snippet |-> "Sleep tracker"],
       [title |-> "Sketching"],
       [title |-> "Walks", body |-> "Walk daily", snippet |-> "walking TOOLS"] >>

\* What one call of ddgs.text does: raise, or return its first n records, or
\* return them with the title of the first one missing.
SearchResults ==
    { [raises |-> TRUE, records |-> <<>>] }
    \cup { [raises |-> FALSE, records |-> Take(ProviderRecords, n)] : n \in 0..MaxRaw }
    \cup { [raises |-> FALSE, records |-> <<[body |-> "untitled"]>>] }

\* The hits the classification service may put in a bucket.  It is free to
\* rephrase, so they need not be hits of raw_data.
HitTitles ==
    [productivity |-> <<"P1", "P2", "P3", "P4">>,
     health       |-> <<"H1", "H2", "H3", "H4">>,
     creativity   |-> <<"C1", "C2", "C3", "C4">>,
     finance      |-> <<"F1", "F2", "F3", "F4">>]

HitSnippets ==
    [productivity |-> <<"Great tool for focus", "Pomodoro", "Inbox zero", "Deep work">>,
     health       |-> <<"Sleep tracker", "health TOOLS", "Walk daily", "Hydrate">>,
     creativity   |-> <<"Sketch daily", "Morning pages", "Mood board Tool", "Remix">>,
     finance      |-> <<"Budget", "Index funds", "Save first", "Toolbox of ETFs">>]

\* The snippets above that contain "tool" once lower-cased (line 91).
ToolSnippets ==
    {"Great tool for focus", "health TOOLS", "Mood board Tool", "Toolbox of ETFs",
     "walking TOOLS"}

Bucket(label, n) ==
    [i \in 1..n |-> [title |-> HitTitles[label][i], snippet |-> HitSnippets[label][i]]]

\* JSON values the service's completion can parse to.
WellFormedJson ==
    { Dict(<<Pair("productivity", List(Bucket("productivity", a))),
             Pair("health", List(Bucket("health", b))),
             Pair("creativity", List(Bucket("creativity", c)))>>) :
        a \in 0..MaxBucket, b \in 0..MaxBucket, c \in 0..MaxBucket }

\* The three keys in another order.
ReorderedJson ==
    Dict(<<Pair("health", List(Bucket("health", 1))),
           Pair("productivity", List(Bucket("productivity", 1))),
           Pair("creativity", List(Bucket("creativity", 1)))>>)

\* A key missing.
MissingKeyJson ==
    Dict(<<Pair("productivity", List(Bucket("productivity", 1))),
           Pair("creativity", List(Bucket("creativity", 1)))>>)

\* A fourth key.
ExtraKeyJson ==
    Dict(<<Pair("productivity", List(Bucket("productivity", 1))),
           Pair("health", List(Bucket("health", 1))),
           Pair("creativity", List(Bucket("creativity", 1))),
           Pair("finance", List(Bucket("finance", 1)))>>)

\* Not a mapping: a JSON array.
ArrayJson == List(Bucket("productivity", 1))

\* A mapping with a bucket that is a number.
NumberBucketJson ==
    Dict(<<Pair("productivity", Number), Pair("health", List(<<>>)),
           Pair("creativity", List(<<>>))>>)

OddJson ==
    {ReorderedJson, MissingKeyJson, ExtraKeyJson, ArrayJson, NumberBucketJson}

\* The three keys in the prompt's order, each bucket longer than a workshop
\* session takes and all of them together longer than the newsletter.
LongJson ==
    Dict(<<Pair("productivity", List(Bucket("productivity", WorkshopTop + 1))),
           Pair("health", List(Bucket("health", WorkshopTop + 1))),
           Pair("creativity", List(Bucket("creativity", WorkshopTop + 1)))>>)

\* What one call of the classification service does: raise, answer text
\* json.loads rejects, or answer text that parses to a JSON value.
GrokReplies ==
    { [kind |-> "raises", value |-> Nothing], [kind |-> "garbage", value |-> Nothing] }
    \cup { [kind |-> "json", value |-> v] : v \in WellFormedJson \cup OddJson \cup {LongJson} }

\* Profiles a request can carry.  The last one lacks the id.
ProfileIds == {"u1", "u2", "health"}
ProfileInterests == {"health", "productivity", "u1"}

Profiles ==
    { [id |-> i, interest |-> t] : i \in ProfileIds, t \in ProfileInterests }
    \cup { [interest |-> "health"] }

RECURSIVE SeqsUpTo(_, _)
SeqsUpTo(S, n) ==
    IF n = 0 THEN {<<>>}
    ELSE LET shorter == SeqsUpTo(S, n - 1)
         IN  shorter \cup { Append(s, x) : s \in shorter, x \in S }

\* What request.get_json() yields: no JSON object at all (a null body, a
\* wrong content type), an object without user_profiles, or one with it.
Bodies ==
    { [isDict |-> FALSE, hasProfiles |-> FALSE, user_profiles |-> <<>>],
      [isDict |-> TRUE, hasProfiles |-> FALSE, user_profiles |-> <<>>] }
    \cup { [isDict |-> TRUE, hasProfiles |-> TRUE, user_profiles |-> ps] :
             ps \in SeqsUpTo(Profiles, MaxProfiles) }

---------------------------------------------------------------------------
(* web_search, lines 36-48. *)

\* Line 45, one record.
Normalize(r) ==
    [title   |-> r.title,
     snippet |-> IF "body" \in DOMAIN r THEN r.body
                 ELSE IF "snippet" \in DOMAIN r THEN r.snippet
                 ELSE ""]

\* The provider raised, or r['title'] raised KeyError on line 45.
SearchFaults(result) ==
    \/ result.raises
    \/ \E i \in 1..Len(result.records) : "title" \notin DOMAIN result.records[i]

web_search(result) ==
    IF SearchFaults(result) THEN <<>>
    ELSE [i \in 1..Len(result.records) |-> Normalize(result.records[i])]

---------------------------------------------------------------------------
(* grok_process_raw_data, lines 50-77: the value returned, the number of   *)
(* calls made to the service, and whether the except clause ran.           *)

\* grok_process_raw_data without the guard of lines 55-56.
grok_without_guard(raw, reply) ==
    IF reply.kind = "json"
    THEN [categorized |-> reply.value, calls |-> 1, fault |-> FALSE]
    ELSE [categorized |-> EmptyCategories, calls |-> 1, fault |-> TRUE]

grok_process_raw_data(raw, reply) ==
    IF raw = <<>>
    THEN [categorized |-> EmptyCategories, calls |-> 0, fault |-> FALSE]
    ELSE IF reply.kind = "json"
    THEN [categorized |-> reply.value, calls |-> 1, fault |-> FALSE]
    ELSE [categorized |-> EmptyCategories, calls |-> 1, fault |-> TRUE]

---------------------------------------------------------------------------
(* generate_outputs, lines 79-117. *)

EmptyDict == [k \in {} |-> Nothing]

\* d[k] = v on a dict with string keys.
Put(d, k, v) == [x \in DOMAIN d \cup {k} |-> IF x = k THEN v ELSE d[x]]

Keys(pairs) == { pairs[i].k : i \in 1..Len(pairs) }
ValueOf(pairs, key) == pairs[CHOOSE i \in 1..Len(pairs) : pairs[i].k = key].v

SnippetsOf(hits) == [i \in 1..Len(hits) |-> hits[i].snippet]
TitlesOf(hits) == [i \in 1..Len(hits) |-> hits[i].title]

\* 'tool' in h['snippet'].lower()
HasTool(h) == h.snippet \in ToolSnippets

\* [h for hacks in categorized.values() for h in hacks], lines 87 and 91:
\* the buckets in the dict's own order.
RECURSIVE Flatten(_)
Flatten(pairs) ==
    IF pairs = <<>> THEN <<>>
    ELSE Head(pairs).v.items \o Flatten(Tail(pairs))

all_hacks(cat) == Flatten(cat.items)

\* The exception line 87 raises on a value that is no dict of lists, as
\* str(e); "" when it raises none.
CategoriesError(cat) ==
    IF cat.t # "dict" THEN "'list' object has no attribute 'values'"
    ELSE IF \E i \in 1..Len(cat.items) : cat.items[i].v.t # "list"
    THEN "'int' object is not iterable"
    ELSE ""

\* Line 98.
BaseKnowledge(cat) ==
    [key \in Keys(cat.items) |-> SnippetsOf(ValueOf(cat.items, key).items)]

\* Lines 100-103 on the profiles left to process: the dict when the loop
\* ends, or when profile['id'] raises KeyError.
RECURSIVE Personalize(_, _)
Personalize(bot_knowledge, profiles) ==
    IF profiles = <<>> THEN [fault |-> FALSE, bot_knowledge |-> bot_knowledge]
    ELSE LET profile == Head(profiles)
             matches == /\ "interest" \in DOMAIN profile
                        /\ profile.interest \in DOMAIN bot_knowledge
         IN  IF ~matches THEN Personalize(bot_knowledge, Tail(profiles))
             ELSE IF "id" \notin DOMAIN profile
             THEN [fault |-> TRUE, bot_knowledge |-> bot_knowledge]
             ELSE Personalize(
                      Put(bot_knowledge, profile.id, bot_knowledge[profile.interest]),
                      Tail(profiles))

\* Line 107.
Sessions(cat) ==
    [i \in 1..Len(cat.items) |->
        [theme |-> cat.items[i].k,
         materials |-> SnippetsOf(Take(cat.items[i].v.items, WorkshopTop))]]

\* Lines 84-107: the outputs dict as far as it was built, and str(e) of the
\* exception that stopped it ("" when none did).
generate_outputs(cat, raw, profiles) ==
    IF CategoriesError(cat) # ""
    THEN [error |-> CategoriesError(cat), outputs |-> EmptyDict]
    ELSE LET first3 ==
                 [newsletter |->
                      [content |-> SnippetsOf(Take(all_hacks(cat), NewsletterTop))],
                  tool_vault |-> [updates |-> SelectSeq(all_hacks(cat), HasTool)],
                  forum |-> [topics |-> TitlesOf(Take(raw, ForumTop))]]
             p == Personalize(BaseKnowledge(cat), profiles)
         IN  IF p.fault THEN [error |-> "'id'", outputs |-> first3]
             ELSE [error |-> "",
                   outputs |->
                       Put(Put(first3, "coaching_bot",
                               [knowledge_base |-> p.bot_knowledge]),
                           "workshops", [sessions |-> Sessions(cat)])]

---------------------------------------------------------------------------
(* run_automation_cycle, lines 119-137, one action per stage. *)

NoResponse == [status |-> 0, body |-> Nothing]

\* The except clause answering with the default status.
ErrorResponseOk(e) == [status |-> 200, body |-> [error |-> e]]

\* Lines 135-137.
ErrorResponse(e) == [status |-> 500, body |-> [error |-> e]]

Init ==
    /\ pc = "ready"
    /\ ZAPIER_WEBHOOK_URL \in BOOLEAN
    /\ user_profiles = <<>>
    /\ raw_data = <<>>
    /\ categorized = Nothing
    /\ outputs = Nothing
    /\ response = NoResponse
    /\ posted = Nothing
    /\ searchCalls = 0
    /\ grokCalls = 0
    /\ relayCalls = 0
    /\ searchFault = FALSE
    /\ grokFault = FALSE
    /\ relayFault = FALSE

\* Lines 126-127: data = request.get_json(); data.get('user_profiles', []).
Receive ==
    /\ pc = "ready"
    /\ \E body \in Bodies :
         IF body.isDict
         THEN /\ user_profiles' = IF body.hasProfiles THEN body.user_profiles ELSE <<>>
              /\ pc' = "search"
              /\ UNCHANGED response
         ELSE /\ response' = ErrorResponse("'NoneType' object has no attribute 'get'")
              /\ pc' = "responded"
              /\ UNCHANGED user_profiles
    /\ UNCHANGED <<ZAPIER_WEBHOOK_URL, raw_data, categorized, outputs, posted,
                   searchCalls, grokCalls, relayCalls, searchFault, grokFault,
                   relayFault>>

\* Line 129.
Search ==
    /\ pc = "search"
    /\ \E result \in SearchResults :
         /\ raw_data' = web_search(result)
         /\ searchFault' = SearchFaults(result)
    /\ searchCalls' = searchCalls + 1
    /\ pc' = "categorize"
    /\ UNCHANGED <<ZAPIER_WEBHOOK_URL, user_profiles, categorized, outputs, response,
                   posted, grokCalls, relayCalls, grokFault, relayFault>>

\* Line 130.
Categorize ==
    /\ pc = "categorize"
    /\ \E reply \in GrokReplies :
         LET r == grok_process_raw_data(raw_data, reply)
         IN  /\ categorized' = r.categorized
             /\ grokCalls' = grokCalls + r.calls
             /\ grokFault' = r.fault
    /\ pc' = "project"
    /\ UNCHANGED <<ZAPIER_WEBHOOK_URL, user_profiles, raw_data, outputs, response,
                   posted, searchCalls, relayCalls, searchFault, relayFault>>

\* Line 131, as far as line 107: the five views, or the exception that the
\* handler's except clause turns into the 500 response.
Assemble ==
    /\ pc = "project"
    /\ LET r == generate_outputs(categorized, raw_data, user_profiles)
       IN  /\ outputs' = r.outputs
           /\ IF r.error = ""
              THEN pc' = "relay" /\ UNCHANGED response
              ELSE pc' = "responded" /\ response' = ErrorResponse(r.error)
    /\ UNCHANGED <<ZAPIER_WEBHOOK_URL, user_profiles, raw_data, categorized, posted,
                   searchCalls, grokCalls, relayCalls, searchFault, grokFault,
                   relayFault>>

\* Relay posting a second time when the first POST raised.
RelayRetrying ==
    /\ pc = "relay"
    /\ IF ZAPIER_WEBHOOK_URL
       THEN /\ relayFault' \in BOOLEAN
            /\ relayCalls' = relayCalls + (IF relayFault' THEN 2 ELSE 1)
            /\ posted' = outputs
       ELSE UNCHANGED <<relayCalls, posted, relayFault>>
    /\ response' = [status |-> 200, body |-> outputs]
    /\ pc' = "responded"
    /\ UNCHANGED <<ZAPIER_WEBHOOK_URL, user_profiles, raw_data, categorized, outputs,
                   searchCalls, grokCalls, searchFault, grokFault>>

\* Lines 110-117 and 133-134: the optional POST, whose exception is logged,
\* then return outputs and jsonify(outputs), 200.
Relay ==
    /\ pc = "relay"
    /\ IF ZAPIER_WEBHOOK_URL
       THEN /\ relayCalls' = relayCalls + 1
            /\ posted' = outputs
            /\ relayFault' \in BOOLEAN
       ELSE UNCHANGED <<relayCalls, posted, relayFault>>
    /\ response' = [status |-> 200, body |-> outputs]
    /\ pc' = "responded"
    /\ UNCHANGED <<ZAPIER_WEBHOOK_URL, user_profiles, raw_data, categorized, outputs,
                   searchCalls, grokCalls, searchFault, grokFault>>

\* The next request: every local of the handler is fresh, the process and
\* its configuration stay.
NextRequest ==
    /\ pc = "responded"
    /\ pc' = "ready"
    /\ user_profiles' = <<>>
    /\ raw_data' = <<>>
    /\ categorized' = Nothing
    /\ outputs' = Nothing
    /\ response' = NoResponse
    /\ posted' = Nothing
    /\ searchCalls' = 0
    /\ grokCalls' = 0
    /\ relayCalls' = 0
    /\ searchFault' = FALSE
    /\ grokFault' = FALSE
    /\ relayFault' = FALSE
    /\ UNCHANGED ZAPIER_WEBHOOK_URL

Next == Receive \/ Search \/ Categorize \/ Assemble \/ Relay \/ NextRequest

Spec == Init /\ [][Next]_vars

---------------------------------------------------------------------------
(* Vocabulary of the properties. *)

\* categorize has returned in this invocation.
Categorized == categorized # Nothing

\* generate_outputs has assembled all five views.
Assembled == DOMAIN outputs = Views

HasKeys(cat) == cat.t = "dict" /\ Keys(cat.items) = Labels

\* A CategorizedResult: exactly the three labels, each a list of hits.
ThreeBuckets(cat) ==
    /\ HasKeys(cat)
    /\ Len(cat.items) = Cardinality(Labels)
    /\ \A i \in 1..Len(cat.items) : cat.items[i].v.t = "list"

\* The hits of one label's bucket.
BucketOf(cat, label) == ValueOf(cat.items, label).items

knowledge_base == outputs.coaching_bot.knowledge_base

AllHaveIds == \A i \in 1..Len(user_profiles) : "id" \in DOMAIN user_profiles[i]

DistinctIds ==
    \A i, j \in 1..Len(user_profiles) :
        i # j => user_profiles[i].id # user_profiles[j].id

\* bot_knowledge after the first n profiles went through the loop.
KnowledgeAfter(n) ==
    Personalize(BaseKnowledge(categorized), Take(user_profiles, n)).bot_knowledge

---------------------------------------------------------------------------
(* C1: whatever the classification service does, the value categorize       *)
(* returns is a mapping whose key set is exactly productivity, health,      *)
(* creativity.                                                              *)
C1_ExactlyThreeKeys == Categorized => HasKeys(categorized)

(* C2: a failed search, a failed classification (the service raises, its    *)
(* text does not parse, or it parses to something without the three         *)
(* buckets) and a failed relay POST, in any combination, are each absorbed  *)
(* at their stage: the invocation ends with status 200 and all five views.  *)
C2_StageFaultsAbsorbed ==
    ( /\ pc = "responded"
      /\ Categorized
      /\ AllHaveIds
      /\ \/ searchFault
         \/ grokFault
         \/ ~ThreeBuckets(categorized)
         \/ relayFault )
    => (response.status = 200 /\ DOMAIN response.body = Views)

(* C3: every invocation ends in exactly one of two outcomes, status 200     *)
(* with a bundle of all five views or status 500 with an object whose only  *)
(* field is error; nothing is returned before that and a bundle with only   *)
(* some of the views is never returned.                                     *)
C3_BundleOrError ==
    IF pc = "responded"
    THEN \/ response.status = 200 /\ DOMAIN response.body = Views
         \/ response.status = 500 /\ DOMAIN response.body = {"error"}
    ELSE response = NoResponse

\* A profile without id stopped generate_outputs after three views, and the
\* handler answered with the error object.
C3_Witness ==
    /\ pc = "responded"
    /\ DOMAIN outputs = {"newsletter", "tool_vault", "forum"}
    /\ response.status = 500

(* C4: the knowledge base holds an entry keyed by a profile's id if and     *)
(* only if that profile's interest is one of the three labels.  Stated for  *)
(* a well-formed CategorizedResult and profiles with pairwise distinct ids  *)
(* none of which is a label, so that no entry of another origin has the     *)
(* key.                                                                     *)
C4_EntryIffInterestIsLabel ==
    ( /\ Assembled
      /\ ThreeBuckets(categorized)
      /\ AllHaveIds
      /\ DistinctIds
      /\ \A i \in 1..Len(user_profiles) : user_profiles[i].id \notin Labels )
    => \A i \in 1..Len(user_profiles) :
           (user_profiles[i].id \in DOMAIN knowledge_base)
               <=> (user_profiles[i].interest \in Labels)

(* C5: each entry the loop adds for a profile has as its value the snippets *)
(* of the bucket named by that profile's interest, whatever the ids and the *)
(* order of the other profiles.  Stated for a well-formed CategorizedResult *)
(* and the profiles whose interest is a label.                              *)
C5_EntryIsInterestBucket ==
    (Assembled /\ ThreeBuckets(categorized))
    => \A i \in 1..Len(user_profiles) :
           (user_profiles[i].interest \in Labels)
           => KnowledgeAfter(i)[user_profiles[i].id]
                  = SnippetsOf(BucketOf(categorized, user_profiles[i].interest))

(* C6: the newsletter is the snippets of the first 5 hits of the buckets    *)
(* flattened in the order productivity, health, creativity.  Stated for a   *)
(* CategorizedResult with exactly the three buckets.                        *)
C6_NewsletterInLabelOrder ==
    (Assembled /\ ThreeBuckets(categorized))
    => outputs.newsletter.content
           = SnippetsOf(Take(BucketOf(categorized, "productivity")
                                 \o BucketOf(categorized, "health")
                                 \o BucketOf(categorized, "creativity"),
                             NewsletterTop))

(* C7: in every successful invocation the workshops view has exactly 3      *)
(* sessions, one per label in the order productivity, health, creativity,   *)
(* each with the first 2 snippets of that label's bucket.                   *)
C7_ThreeSessions ==
    (pc = "responded" /\ response.status = 200)
    => /\ Len(response.body.workshops.sessions) = Len(LabelOrder)
       /\ \A i \in 1..Len(LabelOrder) :
              /\ response.body.workshops.sessions[i].theme = LabelOrder[i]
              /\ LabelOrder[i] \in Keys(categorized.items)
              /\ response.body.workshops.sessions[i].materials
                     = SnippetsOf(Take(BucketOf(categorized, LabelOrder[i]),
                                       WorkshopTop))

(* C8: on an empty hit sequence, which is what every failed search leaves,  *)
(* categorize returns the all-empty three-label fallback and the            *)
(* classification service is not called in that invocation; on a non-empty  *)
(* one the service is called exactly once, also when the call fails.        *)
C8_ServiceCalls ==
    /\ searchFault => raw_data = <<>>
    /\ ~Categorized => grokCalls = 0
    /\ Categorized =>
           IF raw_data = <<>>
           THEN categorized = EmptyCategories /\ grokCalls = 0
           ELSE grokCalls = 1

\* The search failed, categorize returned without a call, the cycle ended.
C8_Witness ==
    /\ pc = "responded"
    /\ searchFault
    /\ categorized = EmptyCategories
    /\ grokCalls = 0
    /\ response.status = 200

C10_BaseEntriesKept ==
    (Assembled /\ ThreeBuckets(categorized))
    => \A label \in Labels :
           knowledge_base[label] = SnippetsOf(BucketOf(categorized, label))

==========================================================================
